---- MODULE Spec2Model ----
(***************************************************************************)
(* cuOSD composite path: cuosd_launch_kernel (dispatch shim),              *)
(* cuosd_launch_kernel_impl (grid geometry), render_elements_kernel (one   *)
(* thread per 2x2 quad, command loop, commit through BlendingPixel).       *)
(* Source: src/libraries/cuOSD/src/cuosd_kernel.cu                         *)
(*                                                                         *)
(* Bytes are integers 0..255.  A colour (uchar4) is a 4-tuple <<x,y,z,w>>; *)
(* the accumulator context_color[4] is a 4-tuple of colours, index k in    *)
(* 1..4 standing for the C index k-1.  A surface plane is a function from  *)
(* <<x, y>> to its stored bytes.  Rectangle corners are integers, so the   *)
(* float cross products of inbox_single_pixel are exact; the +-0.25        *)
(* sub-samples are computed on coordinates multiplied by 4.                *)
(***************************************************************************)
EXTENDS Integers, Sequences, FiniteSets, TLC

VARIABLES
    format,             \* (int)format, the tag handed to cuosd_launch_kernel
    width,              \* int argument: the image width in pixels
    have_rotate_msaa,   \* bool argument
    num_blur_commands,  \* int argument
    blur_commands,      \* BoxBlurCommand[num_blur_commands]
    commands,           \* the command list (commands + commands_offset)
    text_location,      \* TextLocation[] (0-based function)
    line_location_base, \* int[] (0-based function)
    aabb,               \* global bounding box argument <<l, t, r, b>>
    dst,                \* the seed the destination surface was filled from
    undef,              \* quotient this build produces for an int division by 0
    stray,              \* byte this build reads at an address outside the surface
    image0,             \* plane 0: <<x,y>> -> pixel bytes
    image1,             \* plane 1 (NV12 chroma): <<x,y>> -> byte
    host,               \* position of the host in cuosd_launch_kernel
    launches,           \* kernels put on the stream, in order
    log,                \* lines printed by CUOSD_PRINT_E / CUOSD_PRINT_W
    threads,            \* composite kernel: thread id <<gx,gy>> -> local state
    block,              \* blur kernel: the thread block [pc, crop, writes]
    pre0,               \* plane 0 as the composite kernel finds it
    pre1,               \* plane 1 as the composite kernel finds it
    sync                \* blur kernel, thread by thread: [pc, cell, dirty]

vars == <<format, width, have_rotate_msaa, num_blur_commands, blur_commands, commands,
          text_location, line_location_base, aabb, dst, undef, stray, image0, image1,
          host, launches, log, threads, block, pre0, pre1, sync>>

----------------------------------------------------------------------------
(* Bounds of the model *)

ImgW == 4
ImgH == 2

\* the image height in pixels
height == ImgH
MaxCmds == 2

\* the kernel sizes 0 .. MaxKernel for which the divisor of the blur mean is examined
MaxKernel == 4

\* the threads of a blur block followed one by one: BlockW x BlockH of them
BlockW == 3
BlockH == 1

----------------------------------------------------------------------------
(* Scalar helpers *)

ImageFormat ==
    [None |-> 0, RGB |-> 1, RGBA |-> 2, BlockLinearNV12 |-> 3, PitchLinearNV12 |-> 4]

ValidFormats ==
    {ImageFormat.RGB, ImageFormat.RGBA, ImageFormat.BlockLinearNV12,
     ImageFormat.PitchLinearNV12}

Max(a, b) == IF a >= b THEN a ELSE b
Min(a, b) == IF a <= b THEN a ELSE b

u8cast(value) == IF value < 0 THEN 0 ELSE (IF value > 255 THEN 255 ELSE value)

\* num & ~1 on a non-negative int
round_down2(num) == num - (num % 2)

\* conversion of an int to unsigned char
ToU8(v) == v % 256

\* v >> 8 and v >> 2 on a non-negative int
Shr8(v) == v \div 256

SumNotAveraged(v) == v

Shr2(v) == v \div 4

\* C integer division n / d for n >= 0, d >= 0; d = 0 is undefined behaviour and
\* yields the quotient `undef` of this build
CDiv(n, d) == IF d = 0 THEN undef ELSE n \div d

\* the four pixels of the quad at (ix, iy): k = 1..4 <-> color[k-1]
QX(ix, k) == ix + ((k - 1) % 2)
QY(iy, k) == iy + ((k - 1) \div 2)

----------------------------------------------------------------------------
(* Foreground accumulator *)

\* blend_alpha of blend_single_color
blend_alpha_of(color, a) == Shr8(color[4] * (255 - a)) + a

BlendChannel(ch, ba, c, fa, blend_alpha) ==
    u8cast(CDiv(Shr8(ch * ba * (255 - fa)) + (c * fa), blend_alpha))

blend_single_color(color, c0, c1, c2, a) ==
    LET foreground_alpha == a
        background_alpha == color[4]
        blend_alpha == Shr8(background_alpha * (255 - foreground_alpha)) + foreground_alpha
    IN  << BlendChannel(color[1], background_alpha, c0, foreground_alpha, blend_alpha),
           BlendChannel(color[2], background_alpha, c1, foreground_alpha, blend_alpha),
           BlendChannel(color[3], background_alpha, c2, foreground_alpha, blend_alpha),
           ToU8(blend_alpha) >>

\* A quad context ctx = [color, dz]: ctx.color is context_color and ctx.dz tells
\* that some division on it had divisor 0.
BlendQuadWhole(ctx, hit, alpha, p) ==
    LET any == \E n \in 1..4 : hit[n]
    IN  [color |-> [k \in 1..4 |->
                      IF any THEN blend_single_color(ctx.color[k], p.c0, p.c1, p.c2, alpha[k])
                             ELSE ctx.color[k]],
         dz    |-> ctx.dz \/ (any /\ \E k \in 1..4 : blend_alpha_of(ctx.color[k], alpha[k]) = 0)]

\* the same conditional blend on each of the four pixels: hit[k] tells whether
\* pixel k is blended and alpha[k] with which alpha
BlendQuad(ctx, hit, alpha, p) ==
    [color |-> [k \in 1..4 |->
                  IF hit[k] THEN blend_single_color(ctx.color[k], p.c0, p.c1, p.c2, alpha[k])
                            ELSE ctx.color[k]],
     dz    |-> ctx.dz \/ \E k \in 1..4 : hit[k] /\ blend_alpha_of(ctx.color[k], alpha[k]) = 0]

----------------------------------------------------------------------------
(* Rectangles *)

\* q = <<ax, ay, bx, by, cx, cy, dx, dy>>
inbox_single_pixel(ix, iy, q) ==
    /\ ((q[3] - q[1]) * (iy - q[2]) - (q[4] - q[2]) * (ix - q[1])) < 0
    /\ ((q[5] - q[3]) * (iy - q[4]) - (q[6] - q[4]) * (ix - q[3])) < 0
    /\ ((q[7] - q[5]) * (iy - q[6]) - (q[8] - q[6]) * (ix - q[5])) < 0
    /\ ((q[1] - q[7]) * (iy - q[8]) - (q[2] - q[8]) * (ix - q[7])) < 0

Times4(q) == [n \in 1..8 |-> 4 * q[n]]

\* the sub-samples h0..h3 of pixel (ix, iy): inside quad q or not
SubSamples(ix, iy, q) ==
    << inbox_single_pixel(4 * ix - 1, 4 * iy - 1, Times4(q)),
       inbox_single_pixel(4 * ix + 1, 4 * iy - 1, Times4(q)),
       inbox_single_pixel(4 * ix + 1, 4 * iy + 1, Times4(q)),
       inbox_single_pixel(4 * ix - 1, 4 * iy + 1, Times4(q)) >>

Count(h) == Cardinality({n \in 1..4 : h[n]})

\* internal_msaa4x: <<returned bool, value of alpha afterwards>>; alpha_in is
\* the value the reference parameter held before the call
internal_msaa4x(ix, iy, q, a, alpha_in) ==
    LET h == SubSamples(ix, iy, q)
    IN  IF Count(h) > 0 THEN <<TRUE, (a * Count(h)) \div 4>>
                        ELSE <<FALSE, alpha_in>>

\* external_msaa4x: h is the negation of the sub-sample test
external_msaa4x(ix, iy, q, a, alpha_in) ==
    LET h == SubSamples(ix, iy, q)
        n == 4 - Count(h)
    IN  IF n > 0 THEN (IF n = 4 THEN <<TRUE, alpha_in>> ELSE <<TRUE, (a * n) \div 4>>)
                 ELSE <<FALSE, alpha_in>>

render_rectangle_fill_msaa4x(ix, iy, p, ctx) ==
    LET r(k) == internal_msaa4x(QX(ix, k), QY(iy, k), p.quad1, p.c3, 0)
    IN  BlendQuad(ctx, [k \in 1..4 |-> r(k)[1]], [k \in 1..4 |-> r(k)[2]], p)

render_rectangle_fill(ix, iy, p, ctx) ==
    BlendQuad(ctx,
              [k \in 1..4 |-> inbox_single_pixel(QX(ix, k), QY(iy, k), p.quad1)],
              [k \in 1..4 |-> p.c3], p)

render_rectangle_border_msaa4x(ix, iy, p, ctx) ==
    LET r1(k) == internal_msaa4x(QX(ix, k), QY(iy, k), p.quad1, p.c3, 0)
        r2(k) == external_msaa4x(QX(ix, k), QY(iy, k), p.quad2, p.c3, r1(k)[2])
    IN  BlendQuad(ctx, [k \in 1..4 |-> r1(k)[1] /\ r2(k)[1]],
                       [k \in 1..4 |-> r2(k)[2]], p)

render_rectangle_border(ix, iy, p, ctx) ==
    BlendQuad(ctx,
              [k \in 1..4 |-> /\ ~inbox_single_pixel(QX(ix, k), QY(iy, k), p.quad2)
                              /\ inbox_single_pixel(QX(ix, k), QY(iy, k), p.quad1)],
              [k \in 1..4 |-> p.c3], p)

\* do_rectangle<have_rotate_msaa>
do_rectangle(msaa, cmd, ix, iy, ctx) ==
    IF msaa
    THEN IF cmd.thickness = -1
         THEN (IF cmd.interpolation THEN render_rectangle_fill_msaa4x(ix, iy, cmd, ctx)
                                    ELSE render_rectangle_fill(ix, iy, cmd, ctx))
         ELSE (IF cmd.interpolation THEN render_rectangle_border_msaa4x(ix, iy, cmd, ctx)
                                    ELSE render_rectangle_border(ix, iy, cmd, ctx))
    ELSE IF cmd.thickness = -1
         THEN render_rectangle_fill(ix, iy, cmd, ctx)
         ELSE render_rectangle_border(ix, iy, cmd, ctx)

----------------------------------------------------------------------------
(* Text *)

\* render_text: <<hit, ctx'>>.  location = [image_x, image_y, text_x, text_w,
\* text_h]; bitmap = [width, bytes] is text_bitmap with text_bitmap_width.
render_text(ix, iy, location, bitmap, ctx, p) ==
    IF \/ ix + 1 < location.image_x \/ iy + 1 < location.image_y
       \/ ix >= location.image_x + location.text_w
       \/ iy >= location.image_y + location.text_h
    THEN <<FALSE, ctx>>
    ELSE LET fx  == ix - location.image_x
             fy  == iy - location.image_y
             bfx == fx + location.text_x
             fxk(k) == QX(fx, k)
             fyk(k) == QY(fy, k)
             alpha == [k \in 1..4 |->
                         IF \/ fxk(k) < 0 \/ fyk(k) < 0
                            \/ fxk(k) >= location.text_w \/ fyk(k) >= location.text_h
                         THEN 0
                         ELSE ToU8(Shr8(bitmap.bytes[fyk(k) * bitmap.width + QX(bfx, k)] * p.c3))]
         IN  <<TRUE, BlendQuad(ctx, [k \in 1..4 |-> alpha[k] # 0], alpha, p)>>

\* for (j = ilocation_begin; j < ilocation_end; ++j) { hit = render_text; if (hit) break; }
RECURSIVE TextLoop(_, _, _, _, _, _, _, _)
TextLoop(j, ilocation_end, ix, iy, locations, bitmap, ctx, p) ==
    IF j >= ilocation_end
    THEN ctx
    ELSE LET r == render_text(ix, iy, locations[j], bitmap, ctx, p)
         IN  IF r[1] THEN r[2]
                     ELSE TextLoop(j + 1, ilocation_end, ix, iy, locations, bitmap, r[2], p)

----------------------------------------------------------------------------
(* Source stamps: render_rgba_src, render_pl_nv12_src, render_bl_nv12_src.    *)
(* A stamp buffer is a function from 0-based offsets to its elements; a read  *)
(* at an offset outside the buffer yields the byte `stray`.                   *)

StampHit(ix, iy, left, top, right, bottom, k) ==
    ~(\/ QX(ix, k) < left \/ QY(iy, k) < top \/ QX(ix, k) >= right \/ QY(iy, k) >= bottom)

StampOverColor(old, src) == blend_single_color(old, src[1], src[2], src[3], src[4])

\* the accumulator pixel after a stamp pixel src lands on it
StampColor(old, src) == src

\* d_src holds one <<r, g, b, a>> per pixel, rows of `right - left` pixels
render_rgba_src(ix, iy, left, top, right, bottom, d_src, ctx) ==
    IF ix + 1 < left \/ iy + 1 < top \/ ix >= right \/ iy >= bottom
    THEN ctx
    ELSE LET fx == ix - left
             fy == iy - top
             w  == right - left
             at(k) == (fy + ((k - 1) \div 2)) * w + fx + ((k - 1) % 2)
             px(k) == IF at(k) \in DOMAIN d_src THEN d_src[at(k)]
                                                ELSE <<stray, stray, stray, stray>>
         IN  [ctx EXCEPT !.color = [k \in 1..4 |->
                 IF StampHit(ix, iy, left, top, right, bottom, k)
                 THEN StampColor(ctx.color[k], px(k)) ELSE ctx.color[k]]]

ReadStamp(buf, at) == IF at \in DOMAIN buf THEN buf[at] ELSE stray

\* the surface read surf2Dread(buf, x, y) of a w-wide surface
ReadSurface(buf, w, x, y) == IF x >= 0 /\ x < w /\ y >= 0 THEN ReadStamp(buf, y * w + x) ELSE stray

\* fy >> 1
Shr1(n) == n \div 2

\* the colour key: a stamp pixel equal to (trans_0, trans_1, trans_2) gets alpha 0
KeyedAlpha(y, u, v, p) == IF y = p.c0 /\ u = p.c1 /\ v = p.c2 THEN 0 ELSE p.c3

render_pl_nv12_src(ix, iy, left, top, right, bottom, d_src0, d_src1, ctx, p) ==
    IF ix + 1 < left \/ iy + 1 < top \/ ix >= right \/ iy >= bottom
    THEN ctx
    ELSE LET fx == ix - left
             fy == iy - top
             w  == right - left
             offset_0 == fy * w + fx
             offset_1 == Shr1(fy) * w + fx
             offset_2 == Shr1(fy) * w + fx + 1
             y(k) == ReadStamp(d_src0, offset_0 + ((k - 1) \div 2) * w + ((k - 1) % 2))
             u == ReadStamp(d_src1, offset_1)
             v == ReadStamp(d_src1, offset_2)
         IN  [ctx EXCEPT !.color = [k \in 1..4 |->
                 IF StampHit(ix, iy, left, top, right, bottom, k)
                 THEN StampColor(ctx.color[k], <<y(k), u, v, KeyedAlpha(y(k), u, v, p)>>)
                 ELSE ctx.color[k]]]

render_bl_nv12_src(ix, iy, left, top, right, bottom, d_src0, d_src1, ctx, p) ==
    IF ix + 1 < left \/ iy + 1 < top \/ ix >= right \/ iy >= bottom
    THEN ctx
    ELSE LET fx == ix - left
             fy == iy - top
             w  == right - left
             y(k) == ReadSurface(d_src0, w, fx + ((k - 1) % 2), fy + ((k - 1) \div 2))
             u == ReadSurface(d_src1, w, fx, Shr1(fy))
             v == ReadSurface(d_src1, w, fx + 1, Shr1(fy))
         IN  [ctx EXCEPT !.color = [k \in 1..4 |->
                 IF StampHit(ix, iy, left, top, right, bottom, k)
                 THEN StampColor(ctx.color[k], <<y(k), u, v, KeyedAlpha(y(k), u, v, p)>>)
                 ELSE ctx.color[k]]]

----------------------------------------------------------------------------
(* Pixel Blender.  Each operator yields [image0, image1, dz]: the planes after *)
(* the commit of the quad at (x, y) and whether a division had divisor 0.     *)

QuadCells(x, y) == {<<QX(x, k), QY(y, k)>> : k \in 1..4}

QuadIndex(x, y, cell) == CHOOSE k \in 1..4 : cell = <<QX(x, k), QY(y, k)>>

PixelRGBA(p, rcolor) ==
    LET foreground_alpha == rcolor[4]
        background_alpha == p[4]
        blend_alpha == Shr8(background_alpha * (255 - foreground_alpha)) + foreground_alpha
        ch(n) == u8cast(CDiv(Shr8(p[n] * background_alpha * (255 - foreground_alpha))
                             + (rcolor[n] * foreground_alpha), blend_alpha))
    IN  <<ch(1), ch(2), ch(3), ToU8(blend_alpha)>>

PixelRGB(p, rcolor) ==
    LET foreground_alpha == rcolor[4]
        background_alpha == 255
        blend_alpha == Shr8(background_alpha * (255 - foreground_alpha)) + foreground_alpha
        ch(n) == u8cast(CDiv(Shr8(p[n] * background_alpha * (255 - foreground_alpha))
                             + (rcolor[n] * foreground_alpha), blend_alpha))
    IN  <<ch(1), ch(2), ch(3), p[4]>>

BlendingPixel_RGBA(img0, img1, x, y, plot_colors) ==
    [image0 |-> [c \in DOMAIN img0 |->
                   IF c \in QuadCells(x, y)
                   THEN PixelRGBA(img0[c], plot_colors[QuadIndex(x, y, c)])
                   ELSE img0[c]],
     image1 |-> img1,
     dz     |-> \E k \in 1..4 :
                   Shr8(img0[<<QX(x, k), QY(y, k)>>][4] * (255 - plot_colors[k][4]))
                   + plot_colors[k][4] = 0]

BlendingPixel_RGB(img0, img1, x, y, plot_colors) ==
    [image0 |-> [c \in DOMAIN img0 |->
                   IF c \in QuadCells(x, y)
                   THEN PixelRGB(img0[c], plot_colors[QuadIndex(x, y, c)])
                   ELSE img0[c]],
     image1 |-> img1,
     dz     |-> \E k \in 1..4 : Shr8(255 * (255 - plot_colors[k][4])) + plot_colors[k][4] = 0]

\* the luma sample written for one pixel of the quad
LumaNV12(p, c) == [p EXCEPT ![1] = ToU8(Shr8(c[1] * c[4] + (255 - c[4]) * p[1]))]

\* BlendingPixel<BlockLinearNV12> and BlendingPixel<PitchLinearNV12>: the two
\* differ in how a sample is addressed (surf2Dread/surf2Dwrite at (x, y) against
\* a byte pointer at y * stride + x), not in which sample or which value
BlendingPixel_NV12(img0, img1, x, y, plot_colors) ==
    LET sum   == plot_colors[1][4] + plot_colors[2][4] + plot_colors[3][4] + plot_colors[4][4]
        meanu == CDiv(plot_colors[1][2] * plot_colors[1][4] + plot_colors[2][2] * plot_colors[2][4]
                      + plot_colors[3][2] * plot_colors[3][4] + plot_colors[4][2] * plot_colors[4][4], sum)
        meanv == CDiv(plot_colors[1][3] * plot_colors[1][4] + plot_colors[2][3] * plot_colors[2][4]
                      + plot_colors[3][3] * plot_colors[3][4] + plot_colors[4][3] * plot_colors[4][4], sum)
        alpha == Shr2(sum)
        ucell == <<x, y \div 2>>
        vcell == <<x + 1, y \div 2>>
    IN  [image0 |-> [c \in DOMAIN img0 |->
                       IF c \in QuadCells(x, y)
                       THEN LumaNV12(img0[c], plot_colors[QuadIndex(x, y, c)])
                       ELSE img0[c]],
         image1 |-> [c \in DOMAIN img1 |->
                       IF c = ucell THEN ToU8(Shr8(alpha * meanu + (255 - alpha) * img1[c]))
                       ELSE IF c = vcell THEN ToU8(Shr8(alpha * meanv + (255 - alpha) * img1[c]))
                       ELSE img1[c]],
         dz     |-> sum = 0]

\* BlendingPixel<format>::call
BlendingPixel(fmt, img0, img1, x, y, plot_colors) ==
    CASE fmt = ImageFormat.RGBA -> BlendingPixel_RGBA(img0, img1, x, y, plot_colors)
      [] fmt = ImageFormat.RGB  -> BlendingPixel_RGB(img0, img1, x, y, plot_colors)
      [] OTHER                  -> BlendingPixel_NV12(img0, img1, x, y, plot_colors)

\* the surface cells <<plane, x, y>> BlendingPixel<format>::call reads and writes
BlendingCells(fmt, x, y) ==
    {<<0, c[1], c[2]>> : c \in QuadCells(x, y)}
    \cup (IF fmt \in {ImageFormat.BlockLinearNV12, ImageFormat.PitchLinearNV12}
          THEN {<<1, x, y \div 2>>, <<1, x + 1, y \div 2>>}
          ELSE {})

----------------------------------------------------------------------------
(* Circles.  The distance tr = sqrt(d2) of a pixel from the centre is kept as *)
(* its square d2, an integer for an integer centre; tr is compared with an    *)
(* integer n through d2 and n * n, and the alpha of a ramp, the product       *)
(* truncated to unsigned char, is the largest k not above it.                 *)

\* C integer division by 2
CHalf(n) == IF n >= 0 THEN n \div 2 ELSE -((-n) \div 2)

\* sqrt(d2) < n and sqrt(d2) > n
RootBelow(d2, n) == n > 0 /\ d2 < n * n
RootAbove(d2, n) == n < 0 \/ d2 > n * n

\* (x1 - x) / padding * origin_alpha as unsigned char, x = sqrt(d2) in [x1 - padding, x1]
RampDown(d2, x1, padding, origin_alpha) ==
    LET fits(k) == /\ x1 * origin_alpha - k * padding >= 0
                   /\ d2 * origin_alpha * origin_alpha
                        <= (x1 * origin_alpha - k * padding) * (x1 * origin_alpha - k * padding)
    IN  CHOOSE k \in 0 .. origin_alpha : fits(k) /\ (k = origin_alpha \/ ~fits(k + 1))

\* (x - x0) / padding * origin_alpha as unsigned char, x = sqrt(d2) in [x0, x0 + padding)
RampUp(d2, x0, padding, origin_alpha) ==
    LET fits(k) == (k * padding + x0 * origin_alpha) * (k * padding + x0 * origin_alpha)
                     <= d2 * origin_alpha * origin_alpha
    IN  CHOOSE k \in 0 .. origin_alpha : fits(k) /\ (k = origin_alpha \/ ~fits(k + 1))

interpolation_fn_step(d2, a, b, padding, origin_alpha) ==
    IF ~RootBelow(d2, a) /\ RootBelow(d2, b) THEN origin_alpha ELSE 0

interpolation_fn(d2, a, b, padding, origin_alpha) ==
    LET x0 == IF a - padding < 0 THEN 0 ELSE a - padding
        x1 == b + padding
    IN  IF RootBelow(d2, x0) \/ RootAbove(d2, x1) THEN 0
        ELSE IF ~RootBelow(d2, a) /\ RootBelow(d2, b) THEN origin_alpha
        ELSE IF ~RootBelow(d2, b) /\ ~RootAbove(d2, x1) THEN RampDown(d2, x1, padding, origin_alpha)
        ELSE IF RootBelow(d2, a) /\ ~RootBelow(d2, x0) THEN RampUp(d2, x0, padding, origin_alpha)
        ELSE 0

\* the square of tr0..tr3
SquaredDistance(ix, iy, p, k) ==
    (QX(ix, k) - p.cx) * (QX(ix, k) - p.cx) + (QY(iy, k) - p.cy) * (QY(iy, k) - p.cy)

render_circle_interpolation(ix, iy, p, ctx) ==
    LET ring_inner == p.radius - CHalf(p.thickness)
        inner_boundsize == IF p.thickness < 0 THEN 0 ELSE ring_inner
        external_boundsize ==
            IF p.thickness < 0
            THEN (IF p.thickness = -1 THEN p.radius ELSE ring_inner)
            ELSE ring_inner + p.thickness
        alpha == [k \in 1..4 |->
                    interpolation_fn(SquaredDistance(ix, iy, p, k),
                                     inner_boundsize, external_boundsize, 1, p.c3)]
    IN  BlendQuad(ctx, [k \in 1..4 |-> alpha[k] # 0], alpha, p)

----------------------------------------------------------------------------
(* Command loop of render_elements_kernel *)

Culled(ix, iy, pcommand) ==
    \/ ix + 1 < pcommand.bounding_left \/ ix > pcommand.bounding_right
    \/ iy + 1 < pcommand.bounding_top  \/ iy > pcommand.bounding_bottom

CulledTextLineKept(itext_line, pcommand) == itext_line

\* itext_line after a text command that the bounding-box test rejected
CulledTextLine(itext_line, pcommand) ==
    IF pcommand.type = "Text" THEN itext_line + 1 ELSE itext_line

\* One iteration of `for (i = 0; i < num_command; ++i)` on the thread-local
\* state th = [ix, iy, i, itext_line, ctx, reads] for the command pcommand.
\* th.reads records, for every rendered text command, <<i, ilocation_begin,
\* ilocation_end>>.
LoopBody(msaa, th, pcommand, locations, line_base, bitmap) ==
    IF Culled(th.ix, th.iy, pcommand)
    THEN [th EXCEPT !.itext_line = CulledTextLine(@, pcommand), !.i = @ + 1]
    ELSE CASE pcommand.type = "Rectangle" ->
                [th EXCEPT !.ctx = do_rectangle(msaa, pcommand, th.ix, th.iy, @), !.i = @ + 1]
           [] pcommand.type = "Text" ->
                LET ilocation_begin == line_base[th.itext_line]
                    ilocation_end   == line_base[th.itext_line + 1]
                IN  [th EXCEPT !.itext_line = @ + 1,
                               !.ctx = TextLoop(ilocation_begin, ilocation_end, th.ix, th.iy,
                                                locations, bitmap, @, pcommand),
                               !.reads = @ \cup {<<th.i, ilocation_begin, ilocation_end>>},
                               !.i = @ + 1]
           [] pcommand.type = "Circle" ->
                [th EXCEPT !.ctx = render_circle_interpolation(th.ix, th.iy, pcommand, @),
                           !.i = @ + 1]
           [] pcommand.type = "RGBASource" ->
                [th EXCEPT !.ctx = render_rgba_src(th.ix, th.iy,
                                       pcommand.bounding_left, pcommand.bounding_top,
                                       pcommand.bounding_left + pcommand.stamp.width,
                                       pcommand.bounding_top + pcommand.stamp.height,
                                       pcommand.stamp.d_src0, @),
                           !.i = @ + 1]
           [] pcommand.type = "NV12Source" ->
                [th EXCEPT !.ctx = IF pcommand.stamp.block_linear
                                   THEN render_bl_nv12_src(th.ix, th.iy,
                                            pcommand.bounding_left, pcommand.bounding_top,
                                            pcommand.bounding_left + pcommand.stamp.width,
                                            pcommand.bounding_top + pcommand.stamp.height,
                                            pcommand.stamp.d_src0, pcommand.stamp.d_src1,
                                            @, pcommand)
                                   ELSE render_pl_nv12_src(th.ix, th.iy,
                                            pcommand.bounding_left, pcommand.bounding_top,
                                            pcommand.bounding_left + pcommand.stamp.width,
                                            pcommand.bounding_top + pcommand.stamp.height,
                                            pcommand.stamp.d_src0, pcommand.stamp.d_src1,
                                            @, pcommand),
                           !.i = @ + 1]

Transparent(color) ==
    color[1][4] = 0 /\ color[2][4] = 0 /\ color[3][4] = 0 /\ color[4][4] = 0

QuadOriginDense(g, b) == g + b

\* the thread's quad origin (lines 710-711) and the off-image test (line 712)
QuadOrigin(g, b) == (g * 2) + b

BailsPastEdge(ix, iy, image_width, image_height) ==
    ix < 0 \/ iy < 0 \/ ix >= image_width \/ iy >= image_height

Bails(ix, iy, image_width, image_height) ==
    ix < 0 \/ iy < 0 \/ ix >= image_width - 1 \/ iy >= image_height - 1

\* local state of a thread that has entered the command loop
ThreadInit(gx, gy, bx, by) ==
    [ix |-> QuadOrigin(gx, bx), iy |-> QuadOrigin(gy, by), pc |-> "loop", i |-> 0,
     itext_line |-> 0,
     ctx |-> [color |-> <<<<0, 0, 0, 0>>, <<0, 0, 0, 0>>, <<0, 0, 0, 0>>, <<0, 0, 0, 0>>>>,
              dz |-> FALSE],
     reads |-> {}, access |-> {}]

----------------------------------------------------------------------------
(* Blur kernel: one block of 32 x 32 threads per BoxBlurCommand.  A tile is a *)
(* function from <<ix, iy>> to an <<r, g, b>> triple (crop[iy][ix]).          *)

\* __shared__ uchar3 crop[32][32], dim3 block(32, 32)
TileDim == 32

Tile == (0 .. (TileDim - 1)) \X (0 .. (TileDim - 1))

limit(value, low, high) == IF value < low THEN low ELSE (IF value > high THEN high ELSE value)

\* (int)(num / 32.0f) and the C quotient num / 32: truncation towards zero
Trunc32(num) == IF num >= 0 THEN num \div TileDim ELSE -((-num) \div TileDim)

yuv2rgb(y, u, v) ==
    LET iyval == 1220542 * Max(0, y - 16)
    IN  <<u8cast((iyval + 1673527 * (v - 128) + 524288) \div 1048576),
          u8cast((iyval - 852492 * (v - 128) - 409993 * (u - 128) + 524288) \div 1048576),
          u8cast((iyval + 2116026 * (u - 128) + 524288) \div 1048576)>>

rgb2yuv(r, g, b) ==
    <<ToU8(((66 * r + 129 * g + 25 * b + 128) \div 256) + 16),
      ToU8(((112 * b - 38 * r - 74 * g + 128) \div 256) + 128),
      ToU8(((112 * r - 94 * g - 18 * b + 128) \div 256) + 128)>>

\* a byte read at a cell of the plane; a cell outside the plane is outside the
\* surface, and the read yields the byte `stray`
ReadByte(img, cell, ch) == IF cell \in DOMAIN img THEN img[cell][ch] ELSE stray

ReadChroma(img, cell) == IF cell \in DOMAIN img THEN img[cell] ELSE stray

load_pixel(fmt, img0, img1, x, y, down_x) ==
    IF fmt \in {ImageFormat.RGB, ImageFormat.RGBA}
    THEN <<ReadByte(img0, <<x, y>>, 1), ReadByte(img0, <<x, y>>, 2), ReadByte(img0, <<x, y>>, 3)>>
    ELSE yuv2rgb(ReadByte(img0, <<x, y>>, 1),
                 ReadChroma(img1, <<down_x, y \div 2>>),
                 ReadChroma(img1, <<down_x + 1, y \div 2>>))

boxwidth(box)  == box.bounding_right - box.bounding_left
boxheight(box) == box.bounding_bottom - box.bounding_top

\* phase 1: the source pixel (sx, sy) thread (ix, iy) stages
StageX(ix, box) ==
    limit(Trunc32(ix * boxwidth(box) + 16 + TileDim * box.bounding_left), 0, width)

StageY(iy, box) ==
    limit(Trunc32(iy * boxheight(box) + 16 + TileDim * box.bounding_top), 0, height)

BlurStage(fmt, img0, img1, box) ==
    [c \in Tile |->
        load_pixel(fmt, img0, img1, StageX(c[1], box), StageY(c[2], box),
                   round_down2(StageX(c[1], box)))]

HalfKernelRoundedUp(kernel_size) == (kernel_size + 1) \div 2

\* a loop from kernel_size / 2 down to -kernel_size / 2
HalfKernelNegated(kernel_size) ==
    IF kernel_size >= 0 THEN -(kernel_size \div 2) ELSE ((-kernel_size) \div 2)

\* phase 2: the mean over the window of kernel_size / 2 around (ix, iy),
\* clipped to the tile
HalfKernel(kernel_size) ==
    IF kernel_size >= 0 THEN kernel_size \div 2 ELSE -((-kernel_size) \div 2)

\* the window as [v0, v1, u0, u1]: columns v0..v1 and rows u0..u1 of the tile
Window(c, kernel_size) ==
    [v0 |-> Max(0, c[1] - HalfKernel(kernel_size)),
     v1 |-> Min(TileDim - 1, c[1] + HalfKernel(kernel_size)),
     u0 |-> Max(0, c[2] - HalfKernel(kernel_size)),
     u1 |-> Min(TileDim - 1, c[2] + HalfKernel(kernel_size))]

\* color += crop[u][v] over the cells v0..v1 of row u, then over the rows u0..u1
RECURSIVE RowSum(_, _, _, _)
RowSum(crop, u, v, v1) ==
    IF v > v1 THEN <<0, 0, 0>>
    ELSE LET c    == crop[<<v, u>>]
             rest == RowSum(crop, u, v + 1, v1)
         IN  <<c[1] + rest[1], c[2] + rest[2], c[3] + rest[3]>>

RECURSIVE SumOver(_, _, _)
SumOver(crop, win, u) ==
    IF u > win.u1 THEN <<0, 0, 0>>
    ELSE LET row  == RowSum(crop, u, win.v0, win.v1)
             rest == SumOver(crop, win, u + 1)
         IN  <<row[1] + rest[1], row[2] + rest[2], row[3] + rest[3]>>

\* n of thread c: the cells of the tile its two loops visit
MeanCount(c, kernel_size) ==
    LET win == Window(c, kernel_size)
    IN  IF HalfKernel(kernel_size) < 0 THEN 0
        ELSE (win.v1 - win.v0 + 1) * (win.u1 - win.u0 + 1)

BlurMean(crop, kernel_size) ==
    [c \in Tile |->
        LET win   == Window(c, kernel_size)
            n     == MeanCount(c, kernel_size)
            color == IF n = 0 THEN <<0, 0, 0>> ELSE SumOver(crop, win, win.u0)
        IN  <<ToU8(CDiv(color[1], n)), ToU8(CDiv(color[2], n)), ToU8(CDiv(color[3], n))>>]

\* phase 3: the stores [ix, iy, fx, fy, sx, sy] of the block: thread (ix, iy)
\* stores tile cell (sx, sy) at destination pixel (fx, fy)
gap_width(box)  == Trunc32(boxwidth(box) + 31)
gap_height(box) == Trunc32(boxheight(box) + 31)

BlurStores(box) ==
    LET gw == gap_width(box)
        gh == gap_height(box)
        all == {[ix |-> c[1], iy |-> c[2],
                 fx |-> c[1] * gw + j + box.bounding_left,
                 fy |-> c[2] * gh + i + box.bounding_top,
                 sx |-> (TileDim * (c[1] * gw + j)) \div boxwidth(box),
                 sy |-> (TileDim * (c[2] * gh + i)) \div boxheight(box)] :
                    c \in Tile, i \in 0 .. (gh - 1), j \in 0 .. (gw - 1)}
    IN  {s \in all : /\ s.fx >= 0 /\ s.fx < width /\ s.fy >= 0 /\ s.fy < height
                     /\ s.sx < TileDim /\ s.sy < TileDim}

IsNV12(fmt) == fmt \in {ImageFormat.BlockLinearNV12, ImageFormat.PitchLinearNV12}

\* the surface cells <<plane, x, y>> save_pixel<format> writes for one store
save_cells(fmt, s) ==
    {<<0, s.fx, s.fy>>}
    \cup (IF IsNV12(fmt)
          THEN {<<1, round_down2(s.sx), s.fy \div 2>>, <<1, round_down2(s.sx) + 1, s.fy \div 2>>}
          ELSE {})

\* plane 0 after one store
save_pixel(fmt, old, rgb) ==
    CASE fmt = ImageFormat.RGB  -> <<rgb[1], rgb[2], rgb[3], old[4]>>
      [] fmt = ImageFormat.RGBA -> <<rgb[1], rgb[2], rgb[3], 255>>
      [] OTHER                  -> [old EXCEPT ![1] = rgb2yuv(rgb[1], rgb[2], rgb[3])[1]]

\* of the stores that hit one cell, the one that lands last when the threads
\* finish in ascending (or descending) order of (fy, fx)
Lands(S, ascending) ==
    CHOOSE s \in S : \A t \in S :
        IF ascending
        THEN t.fy < s.fy \/ (t.fy = s.fy /\ t.fx <= s.fx)
        ELSE s.fy < t.fy \/ (s.fy = t.fy /\ s.fx <= t.fx)

BlurWrite(fmt, img0, img1, crop, box, ascending) ==
    LET stores == BlurStores(box)
        at0(c) == {s \in stores : s.fx = c[1] /\ s.fy = c[2]}
        at1(c) == {s \in stores : s.fy \div 2 = c[2] /\ round_down2(s.sx) = round_down2(c[1])}
        yuv(s) == rgb2yuv(crop[<<s.sx, s.sy>>][1], crop[<<s.sx, s.sy>>][2], crop[<<s.sx, s.sy>>][3])
    IN  [image0 |-> [c \in DOMAIN img0 |->
                       IF at0(c) = {} THEN img0[c]
                       ELSE save_pixel(fmt, img0[c], crop[<<Lands(at0(c), ascending).sx,
                                                           Lands(at0(c), ascending).sy>>])],
         image1 |-> [c \in DOMAIN img1 |->
                       IF ~IsNV12(fmt) \/ at1(c) = {} THEN img1[c]
                       ELSE yuv(Lands(at1(c), ascending))[2 + (c[1] % 2)]],
         writes |-> UNION {save_cells(fmt, s) : s \in stores}]

----------------------------------------------------------------------------
(* Launch: cuosd_launch_kernel_impl, cuosd_launch_blur_kernel_impl,          *)
(* cuosd_launch_kernel.  A call yields [log, launches, threads].            *)

NoThreads == [t \in {} |-> 0]

BlockDim == <<16, 8>>
BlurBlockDim == <<32, 32>>

cuosd_launch_kernel_impl(fmt, msaa, index, box) ==
    LET left0   == Max(Min(box[1], width - 1), 0)
        top0    == Max(Min(box[2], height - 1), 0)
        right   == Max(Min(box[3], width - 1), 0)
        bottom  == Max(Min(box[4], height - 1), 0)
        left    == round_down2(left0)
        top     == round_down2(top0)
        bounding_width  == right - left + 1
        bounding_height == bottom - top + 1
        gridx == (((bounding_width + 1) \div 2) + BlockDim[1] - 1) \div BlockDim[1]
        gridy == (((bounding_height + 1) \div 2) + BlockDim[2] - 1) \div BlockDim[2]
        launched == (0 .. (gridx * BlockDim[1] - 1)) \X (0 .. (gridy * BlockDim[2] - 1))
        \* threads that return at line 713 touch neither the surface nor any
        \* other thread; they are retired with the launch
        live == {t \in launched :
                   ~Bails(QuadOrigin(t[1], left), QuadOrigin(t[2], top), width, height)}
    IN  IF bounding_width < 1 \/ bounding_height < 1
        THEN [log |-> <<"W: nothing to draw">>, launches |-> <<>>, threads |-> NoThreads]
        ELSE [log |-> <<>>,
              launches |-> <<[kernel |-> "render_elements_kernel", format |-> fmt,
                              msaa |-> msaa, index |-> index, bx |-> left, by |-> top,
                              grid |-> <<gridx, gridy>>]>>,
              threads |-> [t \in live |-> ThreadInit(t[1], t[2], left, top)]]

cuosd_launch_blur_kernel_impl(fmt, index, num_commands) ==
    IF num_commands < 1
    THEN [log |-> <<"W: nothing to draw">>, launches |-> <<>>, threads |-> NoThreads]
    ELSE [log |-> <<>>,
          launches |-> <<[kernel |-> "render_blur_kernel", format |-> fmt, msaa |-> FALSE,
                          index |-> index, bx |-> 0, by |-> 0, grid |-> <<num_commands, 1>>]>>,
          threads |-> NoThreads]

\* func_list of the blur branch and of the composite branch (index + 1)
BlurFuncList ==
    <<ImageFormat.RGB, ImageFormat.RGBA, ImageFormat.BlockLinearNV12,
      ImageFormat.PitchLinearNV12>>

FuncList ==
    << <<ImageFormat.RGB, FALSE>>, <<ImageFormat.RGBA, FALSE>>,
       <<ImageFormat.BlockLinearNV12, FALSE>>, <<ImageFormat.PitchLinearNV12, FALSE>>,
       <<ImageFormat.RGB, TRUE>>, <<ImageFormat.RGBA, TRUE>>,
       <<ImageFormat.BlockLinearNV12, TRUE>>, <<ImageFormat.PitchLinearNV12, TRUE>> >>

BlurIndex(fmt) == fmt - 1

CompositeIndexFormatMajor(msaa, fmt) == (fmt - 1) * 2 + (IF msaa THEN 1 ELSE 0)

CompositeIndex(msaa, fmt) == (IF msaa THEN 1 ELSE 0) * 4 + fmt - 1

Unsupported(index) == [log |-> <<"E: Unsupported configure">>, index |-> index]

\* if(num_blur_commands > 0) and if(num_commands > 0)
BlurRequested(num_blur) == num_blur > 0

DrawRequestedOrEmpty(num_commands) == num_commands >= 0

DrawRequested(num_commands) == num_commands > 0

\* the blur branch (lines 1056-1075): [returned, log, launches]
BlurBranch(fmt, num_blur) ==
    IF BlurRequested(num_blur)
    THEN LET index == BlurIndex(fmt)
         IN  IF index < 0 \/ index >= Len(BlurFuncList)
             THEN [returned |-> TRUE, log |-> Unsupported(index).log, launches |-> <<>>]
             ELSE LET r == cuosd_launch_blur_kernel_impl(BlurFuncList[index + 1], index, num_blur)
                  IN  [returned |-> FALSE, log |-> r.log, launches |-> r.launches]
    ELSE [returned |-> FALSE, log |-> <<>>, launches |-> <<>>]

\* the composite branch (lines 1077-1102): [log, launches, threads]
CompositeBranch(fmt, msaa, num_commands, box) ==
    IF DrawRequested(num_commands)
    THEN LET index == CompositeIndex(msaa, fmt)
         IN  IF index < 0 \/ index >= Len(FuncList)
             THEN [log |-> Unsupported(index).log, launches |-> <<>>, threads |-> NoThreads]
             ELSE cuosd_launch_kernel_impl(FuncList[index + 1][1], FuncList[index + 1][2],
                                           index, box)
    ELSE [log |-> <<>>, launches |-> <<>>, threads |-> NoThreads]

----------------------------------------------------------------------------
(* Inputs of a call *)

\* corners a, b, c, d of the axis-aligned quad with a = (x1, y1), c = (x2, y2)
Quad(x1, y1, x2, y2) == <<x1, y1, x1, y2, x2, y2, x2, y1>>

Rectangle(q1, q2, thickness, interpolation, box, c) ==
    [type |-> "Rectangle", bounding_left |-> box[1], bounding_top |-> box[2],
     bounding_right |-> box[3], bounding_bottom |-> box[4],
     c0 |-> c[1], c1 |-> c[2], c2 |-> c[3], c3 |-> c[4],
     quad1 |-> q1, quad2 |-> q2, thickness |-> thickness,
     interpolation |-> interpolation, glyphs |-> <<>>]

\* CircleCommand::CircleCommand
Circle(cx, cy, radius, thickness, c) ==
    LET half_thickness == CHalf(thickness + 1) + 2
    IN  [type |-> "Circle",
         bounding_left |-> cx - radius - half_thickness, bounding_top |-> cy - radius - half_thickness,
         bounding_right |-> cx + radius + half_thickness, bounding_bottom |-> cy + radius + half_thickness,
         c0 |-> c[1], c1 |-> c[2], c2 |-> c[3], c3 |-> c[4],
         quad1 |-> Quad(0, 0, 0, 0), quad2 |-> Quad(0, 0, 0, 0), thickness |-> thickness,
         interpolation |-> FALSE, glyphs |-> <<>>,
         cx |-> cx, cy |-> cy, radius |-> radius]

\* a text command; glyphs are the TextLocation entries the builder emits for it
Text(glyphs, box, c) ==
    [type |-> "Text", bounding_left |-> box[1], bounding_top |-> box[2],
     bounding_right |-> box[3], bounding_bottom |-> box[4],
     c0 |-> c[1], c1 |-> c[2], c2 |-> c[3], c3 |-> c[4],
     quad1 |-> Quad(0, 0, 0, 0), quad2 |-> Quad(0, 0, 0, 0), thickness |-> -1,
     interpolation |-> FALSE, glyphs |-> glyphs]

\* a host array as the device sees it, indexed from 0
ZeroBased(seq) == [n \in 0..(Len(seq) - 1) |-> seq[n + 1]]

\* a stamp command of w x h pixels centred at (cx, cy)
Stamp(type, cx, cy, w, h, d_src0, d_src1, block_linear, c) ==
    [type |-> type,
     bounding_left |-> cx - ((w + 1) \div 2), bounding_top |-> cy - ((h + 1) \div 2),
     bounding_right |-> cx + ((w + 1) \div 2), bounding_bottom |-> cy + ((h + 1) \div 2),
     c0 |-> c[1], c1 |-> c[2], c2 |-> c[3], c3 |-> c[4],
     quad1 |-> Quad(0, 0, 0, 0), quad2 |-> Quad(0, 0, 0, 0), thickness |-> -1,
     interpolation |-> FALSE, glyphs |-> <<>>,
     stamp |-> [cx |-> cx, cy |-> cy, width |-> w, height |-> h,
                d_src0 |-> ZeroBased(d_src0), d_src1 |-> ZeroBased(d_src1),
                block_linear |-> block_linear]]

RGBASource(cx, cy, w, h, d_src) == Stamp("RGBASource", cx, cy, w, h, d_src, <<>>, FALSE, <<0, 0, 0, 0>>)

NV12Source(cx, cy, w, h, d_src0, d_src1, block_linear, c) ==
    Stamp("NV12Source", cx, cy, w, h, d_src0, d_src1, block_linear, c)

Glyph(image_x, image_y, text_x, text_w, text_h) ==
    [image_x |-> image_x, image_y |-> image_y, text_x |-> text_x,
     text_w |-> text_w, text_h |-> text_h]

RBlue  == Rectangle(Quad(-1, -1, 3, 2), Quad(0, 0, 0, 0), -1, FALSE, <<0, 0, 2, 1>>, <<0, 0, 255, 255>>)
RRed   == Rectangle(Quad(0, -1, 4, 2), Quad(0, 0, 0, 0), -1, FALSE, <<1, 0, 3, 1>>, <<255, 0, 0, 255>>)
RZero  == Rectangle(Quad(-1, -1, 1, 1), Quad(0, 0, 0, 0), -1, FALSE, <<0, 0, 0, 0>>, <<0, 255, 0, 0>>)
RHalf  == Rectangle(Quad(0, -1, 2, 2), Quad(0, 0, 0, 0), -1, FALSE, <<1, 0, 1, 1>>, <<255, 0, 0, 128>>)
RFrame == Rectangle(Quad(-1, -1, 4, 2), Quad(0, -1, 3, 2), 1, TRUE, <<0, 0, 3, 1>>, <<10, 200, 30, 255>>)
TLeft  == Text(<<Glyph(0, 0, 0, 2, 2)>>, <<0, 0, 1, 1>>, <<255, 255, 255, 255>>)
\* TRight is a line of two glyphs, each one column wide
TRight == Text(<<Glyph(2, 0, 2, 1, 2), Glyph(3, 0, 3, 1, 2)>>, <<2, 0, 3, 1>>, <<255, 255, 0, 200>>)

CommandPool == {RBlue, RRed, RZero, RHalf, RFrame, TLeft, TRight}

\* 2 x 2 stamps over the pixels (0,0)..(1,1): an RGBA stamp with a transparent,
\* a half transparent and an opaque pixel, and NV12 stamps keyed on (16, 90, 160)
SRgba == RGBASource(1, 1, 2, 2, <<<<10, 20, 30, 0>>, <<40, 50, 60, 128>>,
                                  <<70, 80, 90, 255>>, <<1, 2, 3, 0>>>>)
SPitch == NV12Source(1, 1, 2, 2, <<16, 100, 200, 50>>, <<90, 160>>, FALSE, <<16, 90, 160, 128>>)
SBlock == NV12Source(1, 1, 2, 2, <<16, 100, 200, 50>>, <<90, 160>>, TRUE, <<16, 90, 160, 128>>)

\* command lists with a stamp: the stamp after an opaque rectangle under it
StampLists == {<<RBlue, SRgba>>, <<RBlue, SPitch>>, <<RBlue, SBlock>>}

\* a hollow rectangle of thickness 0 over (1,-1)-(3,1): inner quad = outer quad
RHair == Rectangle(Quad(1, -1, 3, 1), Quad(1, -1, 3, 1), 0, TRUE, <<1, 0, 3, 1>>, <<10, 200, 30, 255>>)

\* filled circles of radius 1: an opaque one centred on the corner pixel (0,0)
\* and a half transparent one centred on (1,0)
CDisc == Circle(0, 0, 1, -1, <<200, 100, 50, 255>>)
CHaze == Circle(1, 0, 1, -1, <<200, 100, 50, 128>>)

CircleLists == {<<CDisc>>, <<CHaze>>}

CommandLists ==
    UNION {[1..n -> CommandPool] : n \in 0..MaxCmds} \cup StampLists \cup {<<RHair>>}
        \cup CircleLists

\* the glyph atlas: text_bitmap with text_bitmap_width
Atlas ==
    [width |-> 4,
     bytes |-> [n \in 0..7 |-> <<200, 0, 255, 100, 50, 255, 1, 200>>[n + 1]]]

\* what the host builder hands over for a command list: the glyph locations of
\* its text commands in order, and their cumulative counts
RECURSIVE Locations(_)
Locations(cmds) ==
    IF cmds = <<>> THEN <<>>
    ELSE (IF Head(cmds).type = "Text" THEN Head(cmds).glyphs ELSE <<>>) \o Locations(Tail(cmds))

RECURSIVE LineBase(_, _)
LineBase(cmds, from) ==
    IF cmds = <<>> THEN <<from>>
    ELSE IF Head(cmds).type = "Text"
         THEN <<from>> \o LineBase(Tail(cmds), from + Len(Head(cmds).glyphs))
         ELSE LineBase(Tail(cmds), from)

\* the union of the commands' bounding boxes
RECURSIVE UnionBox(_, _)
UnionBox(cmds, box) ==
    IF cmds = <<>> THEN box
    ELSE UnionBox(Tail(cmds),
                  <<Min(box[1], Head(cmds).bounding_left), Min(box[2], Head(cmds).bounding_top),
                    Max(box[3], Head(cmds).bounding_right), Max(box[4], Head(cmds).bounding_bottom)>>)

EmptyBox == <<width, height, 0, 0>>

GlobalBoxes(cmds) ==
    IF cmds = <<>> THEN {EmptyBox, <<0, 0, width - 1, height - 1>>}
                   ELSE {UnionBox(cmds, EmptyBox)}

\* destination surfaces: a position-dependent pattern and one alpha; only an
\* RGBA surface stores an alpha, so only it is given one other than 255
\* step 0 is a surface filled with one value: opaque black, and 200 in every
\* stored sample with alpha 128
DstSeeds ==
    {[base |-> 3, alpha |-> 255, step |-> 1], [base |-> 130, alpha |-> 0, step |-> 1],
     [base |-> 0, alpha |-> 255, step |-> 0], [base |-> 200, alpha |-> 128, step |-> 0]}

Plane0(seed) ==
    [c \in (0..(width - 1)) \X (0..(height - 1)) |->
        LET v == seed.base + seed.step * (40 * c[1] + 90 * c[2])
        IN  <<v % 256, (v + 7 * seed.step) % 256, (v + 14 * seed.step) % 256, seed.alpha>>]

Plane1(seed) ==
    [c \in (0..(width - 1)) \X (0..(((height + 1) \div 2) - 1)) |->
        (seed.base + seed.step * (11 + 50 * c[1] + 70 * c[2])) % 256]

BoxBlur(box, kernel_size) ==
    [type |-> "BoxBlur", bounding_left |-> box[1], bounding_top |-> box[2],
     bounding_right |-> box[3], bounding_bottom |-> box[4], kernel_size |-> kernel_size]

\* the whole image with kernel 3, and a rectangle inside it with kernel 1
BlurPool == {BoxBlur(<<0, 0, width, height>>, 3), BoxBlur(<<1, 0, 3, 2>>, 1)}

StrayBytes == {0, 255}

NoSync == [pc |-> <<>>, cell |-> <<>>, dirty |-> FALSE]

NoBlock == [pc |-> "none", crop |-> <<>>, writes |-> {}]

FormatTags == 0..5

\* image widths: an even one and an odd one
Widths == {ImgW - 1, ImgW}

UndefQuotients == {-1, 2147483647}

----------------------------------------------------------------------------
(* The state machine *)

Init ==
    /\ format \in FormatTags
    /\ width \in Widths
    /\ have_rotate_msaa \in BOOLEAN
    /\ num_blur_commands \in {0, 1}
    /\ blur_commands \in [1..num_blur_commands -> BlurPool]
    /\ commands \in CommandLists
    /\ format \notin ValidFormats => Len(commands) <= 1
    /\ num_blur_commands > 0 => commands \in {<<>>, <<RHalf>>}
    /\ text_location = ZeroBased(Locations(commands))
    /\ line_location_base = ZeroBased(LineBase(commands, 0))
    /\ aabb \in GlobalBoxes(commands)
    /\ dst \in DstSeeds
    /\ (dst.alpha # 255 /\ dst.step # 0) => format = ImageFormat.RGBA
    /\ dst.step = 0 => Len(commands) <= 1
    /\ \A n \in 1..num_blur_commands : blur_commands[n].kernel_size > 1 => dst.step = 0
    /\ undef \in UndefQuotients
    /\ stray \in StrayBytes
    /\ num_blur_commands = 0 => stray = 0
    /\ num_blur_commands > 0 => undef = -1
    /\ image0 = Plane0(dst)
    /\ image1 = Plane1(dst)
    /\ host = "call"
    /\ launches = <<>>
    /\ log = <<>>
    /\ threads = NoThreads
    /\ block = NoBlock
    /\ pre0 = Plane0(dst)
    /\ pre1 = Plane1(dst)
    /\ sync = NoSync

inputs == <<format, width, have_rotate_msaa, num_blur_commands, blur_commands, commands,
            text_location, line_location_base, aabb, dst, undef, stray>>

IssueOrderCompositeFirst(blur, comp) == comp \o blur

\* the blur branch (lines 1056-1075) precedes the composite branch (lines 1077-1102)
\* in the function body, and both launch on the same stream
IssueOrder(blur, comp) == blur \o comp

\* the host runs cuosd_launch_kernel from entry to return
cuosd_launch_kernel ==
    /\ host = "call"
    /\ LET blur == BlurBranch(format, num_blur_commands)
           comp == IF blur.returned
                   THEN [log |-> <<>>, launches |-> <<>>, threads |-> NoThreads]
                   ELSE CompositeBranch(format, have_rotate_msaa, Len(commands), aabb)
       IN  /\ log' = IssueOrder(blur.log, comp.log)
           /\ launches' = IssueOrder(blur.launches, comp.launches)
           /\ threads' = comp.threads
           /\ block' = IF blur.launches = <<>> THEN block ELSE [block EXCEPT !.pc = "stage"]
    /\ host' = "returned"
    /\ UNCHANGED <<inputs, sync, image0, image1, pre0, pre1>>

\* the blur kernel, launched first on the stream: the three phases of its
\* block, separated by __syncthreads()
render_blur_stage ==
    /\ block.pc = "stage"
    /\ block' = [block EXCEPT !.pc = "mean",
                              !.crop = BlurStage(launches[1].format, image0, image1,
                                                 blur_commands[1])]
    /\ UNCHANGED <<inputs, sync, image0, image1, pre0, pre1, host, launches, log, threads>>

render_blur_mean ==
    /\ block.pc = "mean"
    /\ block' = [block EXCEPT !.pc = "write",
                              !.crop = BlurMean(block.crop, blur_commands[1].kernel_size)]
    /\ UNCHANGED <<inputs, sync, image0, image1, pre0, pre1, host, launches, log, threads>>

render_blur_write ==
    /\ block.pc = "write"
    /\ \E ascending \in BOOLEAN :
          LET r == BlurWrite(launches[1].format, image0, image1, block.crop,
                             blur_commands[1], ascending)
          IN  /\ image0' = r.image0
              /\ image1' = r.image1
              /\ pre0' = r.image0
              /\ pre1' = r.image1
              \* the shared tile is gone with the block
              /\ block' = [NoBlock EXCEPT !.pc = "done", !.writes = r.writes]
    /\ UNCHANGED <<inputs, sync, host, launches, log, threads>>

\* stream order: the composite kernel runs once the blur kernel has finished
BlurFinished == block.pc \in {"none", "done"}

\* the composite launch on the stream
Kernel == launches[Len(launches)]

InLoop(t) ==
    /\ BlurFinished
    /\ t \in DOMAIN threads
    /\ threads[t].pc = "loop"
    /\ threads[t].i < Len(commands)

Step(t) ==
    /\ threads' = [threads EXCEPT ![t] =
                     LoopBody(Kernel.msaa, @, commands[@.i + 1], text_location,
                              line_location_base, Atlas)]
    /\ UNCHANGED <<inputs, sync, image0, image1, host, launches, log, block, pre0, pre1>>

KernelCull(t) ==
    /\ InLoop(t)
    /\ Culled(threads[t].ix, threads[t].iy, commands[threads[t].i + 1])
    /\ Step(t)

KernelRectangle(t) ==
    /\ InLoop(t)
    /\ ~Culled(threads[t].ix, threads[t].iy, commands[threads[t].i + 1])
    /\ commands[threads[t].i + 1].type = "Rectangle"
    /\ Step(t)

KernelText(t) ==
    /\ InLoop(t)
    /\ ~Culled(threads[t].ix, threads[t].iy, commands[threads[t].i + 1])
    /\ commands[threads[t].i + 1].type = "Text"
    /\ Step(t)

KernelCircle(t) ==
    /\ InLoop(t)
    /\ ~Culled(threads[t].ix, threads[t].iy, commands[threads[t].i + 1])
    /\ commands[threads[t].i + 1].type = "Circle"
    /\ Step(t)

KernelRGBASource(t) ==
    /\ InLoop(t)
    /\ ~Culled(threads[t].ix, threads[t].iy, commands[threads[t].i + 1])
    /\ commands[threads[t].i + 1].type = "RGBASource"
    /\ Step(t)

KernelNV12Source(t) ==
    /\ InLoop(t)
    /\ ~Culled(threads[t].ix, threads[t].iy, commands[threads[t].i + 1])
    /\ commands[threads[t].i + 1].type = "NV12Source"
    /\ Step(t)

AfterLoop(t) ==
    /\ BlurFinished
    /\ t \in DOMAIN threads
    /\ threads[t].pc = "loop"
    /\ threads[t].i >= Len(commands)

SkipsCommitNever(color) == FALSE

\* line 788: nothing accumulated, return without touching the surface
SkipsCommit(color) == Transparent(color)

KernelReturn(t) ==
    /\ AfterLoop(t)
    /\ SkipsCommit(threads[t].ctx.color)
    /\ threads' = [threads EXCEPT ![t].pc = "done"]
    /\ UNCHANGED <<inputs, sync, image0, image1, host, launches, log, block, pre0, pre1>>

KernelBlend(t) ==
    /\ AfterLoop(t)
    /\ ~SkipsCommit(threads[t].ctx.color)
    /\ LET th == threads[t]
           r  == BlendingPixel(Kernel.format, image0, image1, th.ix, th.iy, th.ctx.color)
       IN  /\ image0' = r.image0
           /\ image1' = r.image1
           /\ threads' = [threads EXCEPT ![t].pc = "done",
                                         ![t].ctx.dz = @ \/ r.dz,
                                         ![t].access = BlendingCells(Kernel.format, th.ix, th.iy)]
    /\ UNCHANGED <<inputs, sync, host, launches, log, block, pre0, pre1>>

Next ==
    \/ cuosd_launch_kernel
    \/ render_blur_stage
    \/ render_blur_mean
    \/ render_blur_write
    \/ \E t \in DOMAIN threads : KernelCull(t)
    \/ \E t \in DOMAIN threads : KernelRectangle(t)
    \/ \E t \in DOMAIN threads : KernelText(t)
    \/ \E t \in DOMAIN threads : KernelCircle(t)
    \/ \E t \in DOMAIN threads : KernelRGBASource(t)
    \/ \E t \in DOMAIN threads : KernelNV12Source(t)
    \/ \E t \in DOMAIN threads : KernelReturn(t)
    \/ \E t \in DOMAIN threads : KernelBlend(t)

Spec == Init /\ [][Next]_vars

----------------------------------------------------------------------------
(* The blur block thread by thread.  render_blur_kernel on a block of       *)
(* BlockW x BlockH threads with a tile of the same size: every thread walks  *)
(* stage, __syncthreads, mean, __syncthreads, store, __syncthreads, write.   *)
(* sync.cell tells what each tile cell holds, sync.dirty whether a thread    *)
(* has stored to the destination surface.                                    *)

BlockThreads == (0 .. (BlockW - 1)) \X (0 .. (BlockH - 1))

\* program order of a thread
Rank(pc) ==
    CASE pc = "stage" -> 0 [] pc = "bar1" -> 1 [] pc = "mean" -> 2 [] pc = "bar2" -> 3
      [] pc = "store" -> 4 [] pc = "bar3" -> 5 [] pc = "write" -> 6 [] pc = "done" -> 7

AfterBarrier(pc) ==
    CASE pc = "bar1" -> "mean" [] pc = "bar2" -> "store" [] pc = "bar3" -> "write"

ArrivedAlone(pcs, at) == TRUE

\* __syncthreads(): every thread of the block has reached the barrier
Arrived(pcs, at) == \A t \in DOMAIN pcs : Rank(pcs[t]) >= Rank(at)

\* the tile cells crop[u][v] thread t reads in phase 2
SyncWindow(t, kernel_size) ==
    {c \in BlockThreads :
        /\ c[1] >= t[1] - HalfKernel(kernel_size) /\ c[1] <= t[1] + HalfKernel(kernel_size)
        /\ c[2] >= t[2] - HalfKernel(kernel_size) /\ c[2] <= t[2] + HalfKernel(kernel_size)}

\* the tile cells crop[sy][sx] thread t reads in phase 3, one per pixel it stores
SyncSource(t, box) ==
    LET gw == (boxwidth(box) + BlockW - 1) \div BlockW
        gh == (boxheight(box) + BlockH - 1) \div BlockH
    IN  {c \in BlockThreads :
            \E i \in 0 .. (gh - 1), j \in 0 .. (gw - 1) :
                LET fx == t[1] * gw + j + box.bounding_left
                    fy == t[2] * gh + i + box.bounding_top
                IN  /\ fx >= 0 /\ fx < width /\ fy >= 0 /\ fy < height
                    /\ c[1] = (BlockW * (t[1] * gw + j)) \div boxwidth(box)
                    /\ c[2] = (BlockH * (t[2] * gh + i)) \div boxheight(box)}

\* a blur-only call whose blur kernel has just been launched
InitSync ==
    /\ format \in ValidFormats
    /\ width \in Widths
    /\ have_rotate_msaa = FALSE
    /\ num_blur_commands = 1
    /\ blur_commands \in [1..1 -> BlurPool]
    /\ commands = <<>>
    /\ text_location = ZeroBased(<<>>)
    /\ line_location_base = ZeroBased(<<0>>)
    /\ aabb = EmptyBox
    /\ dst = [base |-> 0, alpha |-> 255, step |-> 0]
    /\ undef = -1
    /\ stray = 0
    /\ image0 = Plane0(dst)
    /\ image1 = Plane1(dst)
    /\ host = "returned"
    /\ launches = BlurBranch(format, num_blur_commands).launches
    /\ log = <<>>
    /\ threads = NoThreads
    /\ block = [NoBlock EXCEPT !.pc = "stage"]
    /\ pre0 = Plane0(dst)
    /\ pre1 = Plane1(dst)
    /\ sync = [pc |-> [t \in BlockThreads |-> "stage"],
               cell |-> [c \in BlockThreads |-> "empty"],
               dirty |-> FALSE]

call == <<inputs, image0, image1, host, launches, log, threads, block, pre0, pre1>>

\* lines 927-930: load_pixel from the surface into the thread's own cell
SyncStage(t) ==
    /\ sync.pc[t] = "stage"
    /\ sync' = [sync EXCEPT !.pc[t] = "bar1", !.cell[t] = "staged"]
    /\ UNCHANGED call

\* lines 931, 948, 950
SyncThreads(t) ==
    /\ sync.pc[t] \in {"bar1", "bar2", "bar3"}
    /\ Arrived(sync.pc, sync.pc[t])
    /\ sync' = [sync EXCEPT !.pc[t] = AfterBarrier(@)]
    /\ UNCHANGED call

\* lines 933-947: the sums over the window
SyncMean(t) ==
    /\ sync.pc[t] = "mean"
    /\ sync' = [sync EXCEPT !.pc[t] = "bar2"]
    /\ UNCHANGED call

\* line 949: the mean replaces the thread's own cell
SyncStore(t) ==
    /\ sync.pc[t] = "store"
    /\ sync' = [sync EXCEPT !.pc[t] = "bar3", !.cell[t] = "mean"]
    /\ UNCHANGED call

\* lines 952-968: save_pixel of the cells SyncSource to the surface
SyncWrite(t) ==
    /\ sync.pc[t] = "write"
    /\ sync' = [sync EXCEPT !.pc[t] = "done",
                            !.dirty = @ \/ SyncSource(t, blur_commands[1]) # {}]
    /\ UNCHANGED call

NextSync ==
    \/ \E t \in BlockThreads : SyncStage(t)
    \/ \E t \in BlockThreads : SyncThreads(t)
    \/ \E t \in BlockThreads : SyncMean(t)
    \/ \E t \in BlockThreads : SyncStore(t)
    \/ \E t \in BlockThreads : SyncWrite(t)

SpecSync == InitSync /\ [][NextSync]_vars

----------------------------------------------------------------------------
(* Properties *)

AllDone ==
    /\ host = "returned" /\ BlurFinished
    /\ \A t \in DOMAIN threads : threads[t].pc = "done"

CompositeLaunched == host = "returned" /\ threads # NoThreads

\* number of Text commands among commands 0 .. i-1
TextsBefore(cmds, i) == Cardinality({n \in 1..i : cmds[n].type = "Text"})

\* C1: at command i a thread's itext_line is the number of Text commands among
\* commands 0..i-1, culled or rendered, and every rendered Text command read the
\* glyph range [line_location_base[k], line_location_base[k+1]) of its own
\* ordinal k among the Text commands.
C1_TextLineCounter ==
    \A t \in DOMAIN threads :
        /\ threads[t].itext_line = TextsBefore(commands, threads[t].i)
        /\ \A r \in threads[t].reads :
              /\ r[2] = line_location_base[TextsBefore(commands, r[1])]
              /\ r[3] = line_location_base[TextsBefore(commands, r[1]) + 1]

\* a thread rendered a Text command after an earlier Text command was culled
C1_Witness ==
    \E t \in DOMAIN threads : \E r \in threads[t].reads :
        \E n \in 1..r[1] :
            /\ commands[n].type = "Text"
            /\ Culled(threads[t].ix, threads[t].iy, commands[n])
            /\ r[3] > r[2]

\* C2: with num_commands = 0 and num_blur_commands = 0 no kernel is launched and
\* the surface (both planes, whatever the format) stays as it was.
C2_IdentityOnEmpty ==
    (Len(commands) = 0 /\ num_blur_commands = 0) =>
        /\ launches = <<>>
        /\ threads = NoThreads
        /\ image0 = Plane0(dst)
        /\ image1 = Plane1(dst)

C2_Witness ==
    /\ host = "returned"
    /\ Len(commands) = 0 /\ num_blur_commands = 0
    /\ format = ImageFormat.PitchLinearNV12
    /\ aabb = <<0, 0, width - 1, height - 1>>

\* pixel c lies strictly outside every command's bounding box dilated by 1
OutsideDilated(c) ==
    \A n \in 1..Len(commands) :
        \/ c[1] < commands[n].bounding_left - 1 \/ c[1] > commands[n].bounding_right + 1
        \/ c[2] < commands[n].bounding_top - 1  \/ c[2] > commands[n].bounding_bottom + 1

\* the chroma samples shared by pixel c
ChromaPair(c) ==
    {u \in DOMAIN image1 :
        u[2] = c[2] \div 2 /\ u[1] \in {round_down2(c[1]), round_down2(c[1]) + 1}}

\* C3: a pixel strictly outside the union of the commands' bounding boxes, each
\* dilated by 1, keeps its value through the composite launch: plane 0 and its
\* chroma pair.
C3_Locality ==
    \A c \in DOMAIN image0 :
        OutsideDilated(c) =>
            /\ image0[c] = pre0[c]
            /\ \A u \in ChromaPair(c) : image1[u] = pre1[u]

\* the kernel has finished, it changed the surface, and a pixel outside exists
C3_Witness ==
    /\ AllDone /\ CompositeLaunched
    /\ image0 # pre0
    /\ \E c \in DOMAIN image0 : OutsideDilated(c)

----------------------------------------------------------------------------
(* The launch as a function of its inputs: every quad runs its command loop  *)
(* and commits, one quad after the other in row-major order.                *)

RECURSIVE RunLoop(_, _, _, _, _, _)
RunLoop(msaa, th, cmds, locations, line_base, bitmap) ==
    IF th.i >= Len(cmds)
    THEN th
    ELSE RunLoop(msaa, LoopBody(msaa, th, cmds[th.i + 1], locations, line_base, bitmap),
                 cmds, locations, line_base, bitmap)

First(S) == CHOOSE t \in S : \A u \in S : t[2] < u[2] \/ (t[2] = u[2] /\ t[1] <= u[1])

RECURSIVE CommitAll(_, _, _, _)
CommitAll(fmt, ths, S, img) ==
    IF S = {}
    THEN img
    ELSE LET t == First(S)
             r == IF SkipsCommit(ths[t].ctx.color)
                  THEN [image0 |-> img[1], image1 |-> img[2]]
                  ELSE BlendingPixel(fmt, img[1], img[2], ths[t].ix, ths[t].iy, ths[t].ctx.color)
         IN  CommitAll(fmt, ths, S \ {t}, <<r.image0, r.image1>>)

\* the surface <<image0, image1>> a call leaves for the command list cmds, all
\* other arguments being those of the current call
Output(cmds) ==
    LET comp == IF BlurBranch(format, num_blur_commands).returned
                THEN [launches |-> <<>>, threads |-> NoThreads]
                ELSE CompositeBranch(format, have_rotate_msaa, Len(cmds), aabb)
        k    == comp.launches[1]
        ths  == [t \in DOMAIN comp.threads |->
                   RunLoop(k.msaa, comp.threads[t], cmds, text_location,
                           line_location_base, Atlas)]
    IN  IF comp.launches = <<>>
        THEN <<pre0, pre1>>
        ELSE CommitAll(k.format, ths, DOMAIN ths, <<pre0, pre1>>)

Swap(cmds, i, j) == [cmds EXCEPT ![i] = cmds[j], ![j] = cmds[i]]

DisjointBoxes(a, b) ==
    \/ a.bounding_right < b.bounding_left \/ b.bounding_right < a.bounding_left
    \/ a.bounding_bottom < b.bounding_top \/ b.bounding_bottom < a.bounding_top

KeepsTextOrder(cmds, i, j) ==
    /\ ~(cmds[i].type = "Text" /\ cmds[j].type = "Text")
    /\ (cmds[i].type = "Text" \/ cmds[j].type = "Text")
          => \A n \in (i + 1)..(j - 1) : cmds[n].type # "Text"

\* every command between the two has a bounding box disjoint from both
ClearBetween(cmds, i, j) ==
    \A n \in (i + 1)..(j - 1) :
        DisjointBoxes(cmds[n], cmds[i]) /\ DisjointBoxes(cmds[n], cmds[j])

OpaqueFill(cmd) == cmd.type = "Rectangle" /\ cmd.thickness = -1 /\ cmd.c3 = 255

Covers(cmd, c) == inbox_single_pixel(c[1], c[2], cmd.quad1)

ColourOf(cmd) == <<cmd.c0, cmd.c1, cmd.c2>>

\* C5: of two opaque filled rectangles, every image pixel covered by both has
\* exactly the later one's colour in the accumulator once the later command is
\* processed and, on an RGB or RGBA destination where the later command is the
\* last one, in the surface when the kernel has finished.
C5_PaintersAlgorithm ==
    \A i, j \in 1..Len(commands) :
        (i < j /\ OpaqueFill(commands[i]) /\ OpaqueFill(commands[j])) =>
            \A c \in DOMAIN image0 :
                (Covers(commands[i], c) /\ Covers(commands[j], c)) =>
                    /\ \A t \in DOMAIN threads :
                          (c \in QuadCells(threads[t].ix, threads[t].iy) /\ threads[t].i = j)
                             => threads[t].ctx.color[QuadIndex(threads[t].ix, threads[t].iy, c)]
                                   = ColourOf(commands[j]) \o <<255>>
                    /\ (/\ AllDone /\ CompositeLaunched /\ j = Len(commands)
                        /\ format \in {ImageFormat.RGB, ImageFormat.RGBA})
                          => SubSeq(image0[c], 1, 3) = ColourOf(commands[j])

\* the channels a surface of the format stores for one pixel of plane 0
Stored(fmt, p) ==
    CASE fmt = ImageFormat.RGBA -> p
      [] fmt = ImageFormat.RGB  -> SubSeq(p, 1, 3)
      [] OTHER                  -> SubSeq(p, 1, 1)

\* C6: a committed foreground pixel with alpha 0 leaves its destination pixel
\* as it was in every stored channel, and one with alpha 255 makes the
\* destination colour channels equal to the foreground's (on NV12 the luma
\* sample equal to the foreground's first channel).
C6_AlphaSaturation ==
    \A t \in DOMAIN threads :
        (format \in ValidFormats /\ threads[t].pc = "done" /\ threads[t].access # {}) =>
            \A k \in 1..4 :
                LET c  == <<QX(threads[t].ix, k), QY(threads[t].iy, k)>>
                    fg == threads[t].ctx.color[k]
                IN  /\ fg[4] = 0 =>
                          Stored(Kernel.format, image0[c]) = Stored(Kernel.format, pre0[c])
                    /\ fg[4] = 255 =>
                          IF Kernel.format \in {ImageFormat.RGB, ImageFormat.RGBA}
                          THEN SubSeq(image0[c], 1, 3) = SubSeq(fg, 1, 3)
                          ELSE image0[c][1] = fg[1]

\* C7: the threads of one composite launch have even-aligned quad origins,
\* each commits only to its own 2x2 quad and that quad's chroma pair, no
\* surface cell belongs to two threads, and the surface left when all threads
\* have finished is the one function of the inputs, whatever the interleaving.
C7_DisjointQuads ==
    /\ \A t \in DOMAIN threads :
          /\ threads[t].ix % 2 = 0 /\ threads[t].iy % 2 = 0
          /\ threads[t].access \subseteq
                {<<0, c[1], c[2]>> : c \in QuadCells(threads[t].ix, threads[t].iy)}
                \cup {<<1, x, threads[t].iy \div 2>> : x \in {threads[t].ix, threads[t].ix + 1}}
          /\ \A u \in DOMAIN threads :
                t # u => BlendingCells(Kernel.format, threads[t].ix, threads[t].iy)
                         \cap BlendingCells(Kernel.format, threads[u].ix, threads[u].iy) = {}
    /\ AllDone => <<image0, image1>> = Output(commands)

\* two threads of one launch have both committed, in either order
C7_Witness ==
    /\ AllDone
    /\ \E t, u \in DOMAIN threads :
          /\ t # u
          /\ threads[t].access # {} /\ threads[u].access # {}
          /\ Kernel.format = ImageFormat.PitchLinearNV12

\* C8: no blend divides a colour channel by a blend_alpha of 0, in the
\* accumulator or in the Pixel Blender.
C8_DivisionGuarded ==
    format \in ValidFormats => \A t \in DOMAIN threads : ~threads[t].ctx.dz

Logged(line) == \E n \in 1..Len(log) : log[n] = line

\* C9: a call whose format tag is none of the four formats, with something to
\* draw or to blur, reports the error and launches no kernel, whatever
\* have_rotate_msaa is; the surface stays as it was.
C9_UnsupportedRejected ==
    (/\ host = "returned" /\ format \notin ValidFormats
     /\ (Len(commands) > 0 \/ num_blur_commands > 0))
        => /\ launches = <<>>
           /\ threads = NoThreads
           /\ Logged(Unsupported(0).log[1])
           /\ image0 = Plane0(dst) /\ image1 = Plane1(dst)

IsBlurOf(l, f) == l.kernel = "render_blur_kernel" /\ l.format = f

IsCompositeOf(l, f, m) ==
    l.kernel = "render_elements_kernel" /\ l.format = f /\ l.msaa = m

\* C10 as stated: a valid format f and have_rotate_msaa m select the composite
\* specialization of exactly (f, m) at table index (int)m * 4 + f, and the blur
\* specialization of exactly f.
C10_IndexAsStated ==
    (host = "returned" /\ format \in ValidFormats) =>
        /\ num_blur_commands > 0 => IsBlurOf(launches[1], format)
        /\ Len(commands) > 0 =>
              /\ IsCompositeOf(Kernel, format, have_rotate_msaa)
              /\ Kernel.index = (IF have_rotate_msaa THEN 1 ELSE 0) * 4 + format

\* C10 amended: a valid format f and have_rotate_msaa m select the composite
\* specialization of exactly (f, m), which is the table entry at index
\* (int)m * 4 + (int)f - 1, and the blur specialization of exactly f, which is
\* the table entry at index (int)f - 1.
C10_Dispatch ==
    (host = "returned" /\ format \in ValidFormats) =>
        /\ num_blur_commands > 0 =>
              /\ IsBlurOf(launches[1], format)
              /\ launches[1].index = format - 1
              /\ BlurFuncList[launches[1].index + 1] = format
        /\ Len(commands) > 0 =>
              /\ IsCompositeOf(Kernel, format, have_rotate_msaa)
              /\ Kernel.index = (IF have_rotate_msaa THEN 1 ELSE 0) * 4 + format - 1
              /\ FuncList[Kernel.index + 1] = <<format, have_rotate_msaa>>

\* one call launched the blur kernel and then the MSAA composite kernel
C10_Witness ==
    /\ host = "returned" /\ format = ImageFormat.BlockLinearNV12
    /\ have_rotate_msaa /\ num_blur_commands > 0 /\ Len(commands) > 0
    /\ Len(launches) = 2

\* C11: in a call with blur commands, draw commands and a valid format, the blur
\* launch is issued first and the composite launch second, each exactly once, and
\* no composite thread has stepped while the blur block is still running.
C11_BlurBeforeComposite ==
    (host = "returned" /\ format \in ValidFormats
        /\ num_blur_commands > 0 /\ Len(commands) > 0) =>
        /\ Len(launches) = 2
        /\ launches[1].kernel = "render_blur_kernel"
        /\ launches[2].kernel = "render_elements_kernel"
        /\ ~BlurFinished => \A t \in DOMAIN threads : threads[t].pc = "loop" /\ threads[t].i = 0

C11_Witness ==
    /\ host = "returned" /\ format \in ValidFormats
    /\ num_blur_commands > 0 /\ Len(commands) > 0
    /\ Len(launches) = 2
    /\ AllDone

\* scenario S1 at the modelled image size: an RGBA surface filled with
\* (0, 0, 0, 255) and the one filled rectangle of colour (255, 0, 0, 128)
BlackSeed == [base |-> 0, alpha |-> 255, step |-> 0]

ScenarioS1 ==
    /\ format = ImageFormat.RGBA /\ dst = BlackSeed
    /\ num_blur_commands = 0 /\ commands = <<RHalf>>
    /\ ~have_rotate_msaa

\* C12: scenario S1 leaves every pixel inside the rectangle equal to
\* (127, 0, 0, 255) and every pixel outside it equal to (0, 0, 0, 255).
C12_ScenarioS1 ==
    (ScenarioS1 /\ AllDone) =>
        \A c \in DOMAIN image0 :
            image0[c] = IF Covers(RHalf, c) THEN <<127, 0, 0, 255>> ELSE <<0, 0, 0, 255>>

\* pixel c lies inside the glyph at location, and the atlas byte it maps to
InGlyph(location, c) ==
    /\ c[1] >= location.image_x /\ c[1] < location.image_x + location.text_w
    /\ c[2] >= location.image_y /\ c[2] < location.image_y + location.text_h

GlyphByte(location, c) ==
    Atlas.bytes[(c[2] - location.image_y) * Atlas.width
                + (c[1] - location.image_x) + location.text_x]

\* C13: a Text command with alpha c3 blends into an empty accumulator, at a
\* pixel inside its glyph with atlas byte b, the foreground alpha b * c3 / 255
\* (rounded down or up); with c3 = 255 the alpha is b itself.
C13_TextCoverage ==
    \A t \in DOMAIN threads :
        (/\ Len(commands) >= 1 /\ commands[1].type = "Text"
         /\ threads[t].i = 1
         /\ ~Culled(threads[t].ix, threads[t].iy, commands[1])) =>
            \A k \in 1..4 :
                LET c == <<QX(threads[t].ix, k), QY(threads[t].iy, k)>>
                    g == commands[1].glyphs[1]
                    a == threads[t].ctx.color[k][4]
                    b == GlyphByte(g, c)
                IN  InGlyph(g, c) =>
                        /\ 255 * a > b * commands[1].c3 - 255
                        /\ 255 * a < b * commands[1].c3 + 255

WholeImage == BoxBlur(<<0, 0, width, height>>, 3)

\* scenario S5: a surface of one value and one blur of the whole image with
\* kernel_size 3, the blur kernel finished
ScenarioS5 ==
    /\ format \in ValidFormats /\ dst.step = 0
    /\ num_blur_commands = 1 /\ blur_commands[1] = WholeImage
    /\ block.pc = "done"

\* C14: scenario S5 leaves every stored sample of the surface as it was, on each
\* of the four formats.
C14_UniformBlur ==
    ScenarioS5 =>
        /\ \A c \in DOMAIN pre0 : Stored(format, pre0[c]) = Stored(format, Plane0(dst)[c])
        /\ IsNV12(format) => pre1 = Plane1(dst)

\* the one blur command of the call has kernel_size 1
UnitBlur == num_blur_commands = 1 /\ blur_commands[1].kernel_size = 1 /\ format \in ValidFormats

\* pixel c lies in the rectangle of the blur command
InBox(box, c) ==
    /\ c[1] >= box.bounding_left /\ c[1] < box.bounding_right
    /\ c[2] >= box.bounding_top /\ c[2] < box.bounding_bottom

Dist(a, b) == IF a >= b THEN a - b ELSE b - a

\* C15: with kernel_size 1 the tile after phase 2 equals the tile staged in
\* phase 1, and on an RGB surface every destination pixel stored in phase 3 holds
\* the original value of a pixel of the same rectangle at most ceil(boxW / 32)
\* columns and ceil(boxH / 32) rows away.
C15_UnitKernel ==
    /\ (UnitBlur /\ block.pc = "write") =>
            block.crop = BlurStage(format, image0, image1, blur_commands[1])
    /\ (UnitBlur /\ block.pc = "done" /\ format = ImageFormat.RGB) =>
            \A s \in BlurStores(blur_commands[1]) :
                \E c \in DOMAIN pre0 :
                    /\ InBox(blur_commands[1], c)
                    /\ Dist(c[1], s.fx) <= gap_width(blur_commands[1])
                    /\ Dist(c[2], s.fy) <= gap_height(blur_commands[1])
                    /\ Stored(format, pre0[<<s.fx, s.fy>>]) = Stored(format, Plane0(dst)[c])

C15_Witness ==
    /\ UnitBlur /\ block.pc = "done" /\ format = ImageFormat.RGB
    /\ dst.step = 1
    /\ Cardinality(BlurStores(blur_commands[1])) >= 4

\* the glyphs of the line that contain pixel c, by position in the line
GlyphsAt(glyphs, c) == {n \in 1..Len(glyphs) : InGlyph(glyphs[n], c)}

FirstGlyphAt(glyphs, c) == CHOOSE n \in GlyphsAt(glyphs, c) : \A m \in GlyphsAt(glyphs, c) : n <= m

\* C16: a Text command renders every pixel of a quad from the first glyph of its
\* line that contains that pixel: on an empty accumulator the pixel ends with
\* that glyph's coverage (atlas byte * c3) >> 8, and stays empty only if no glyph
\* of the line contains it or the coverage is 0.
C16_GlyphPerPixel ==
    \A t \in DOMAIN threads :
        (/\ Len(commands) >= 1 /\ commands[1].type = "Text"
         /\ threads[t].i = 1
         /\ ~Culled(threads[t].ix, threads[t].iy, commands[1])) =>
            \A k \in 1..4 :
                LET c == <<QX(threads[t].ix, k), QY(threads[t].iy, k)>>
                    g == commands[1].glyphs
                    a == threads[t].ctx.color[k][4]
                IN  IF GlyphsAt(g, c) = {}
                    THEN a = 0
                    ELSE a = ToU8(Shr8(GlyphByte(g[FirstGlyphAt(g, c)], c) * commands[1].c3))

IsStamp(cmd) == cmd.type \in {"RGBASource", "NV12Source"}

\* the stamp's foreground at image pixel c: its own RGBA pixel, or its NV12
\* sample with the colour-key alpha
StampPixel(cmd, c) ==
    LET fx == c[1] - cmd.bounding_left
        fy == c[2] - cmd.bounding_top
        w  == cmd.stamp.width
    IN  IF cmd.type = "RGBASource"
        THEN cmd.stamp.d_src0[fy * w + fx]
        ELSE LET y == cmd.stamp.d_src0[fy * w + fx]
                 u == cmd.stamp.d_src1[(fy \div 2) * w + round_down2(fx)]
                 v == cmd.stamp.d_src1[(fy \div 2) * w + round_down2(fx) + 1]
             IN  <<y, u, v, KeyedAlpha(y, u, v, cmd)>>

\* the accumulator of thread t as it was before its latest command
Before(t) ==
    RunLoop(Kernel.msaa,
            [threads[t] EXCEPT !.i = 0, !.itext_line = 0, !.reads = {},
                               !.ctx = ThreadInit(0, 0, 0, 0).ctx],
            SubSeq(commands, 1, threads[t].i - 1),
            text_location, line_location_base, Atlas).ctx.color

\* C17: after a stamp command, every accumulator pixel the stamp covers is the
\* source-over blend of the stamp's pixel onto the accumulator's previous value;
\* a stamp pixel with alpha 0 leaves the pixel as it was.
C17_StampSourceOver ==
    \A t \in DOMAIN threads :
        (/\ threads[t].i >= 1 /\ IsStamp(commands[threads[t].i])
         /\ ~Culled(threads[t].ix, threads[t].iy, commands[threads[t].i])) =>
            \A k \in 1..4 :
                LET c   == <<QX(threads[t].ix, k), QY(threads[t].iy, k)>>
                    cmd == commands[threads[t].i]
                IN  StampHit(threads[t].ix, threads[t].iy, cmd.bounding_left, cmd.bounding_top,
                             cmd.bounding_left + cmd.stamp.width,
                             cmd.bounding_top + cmd.stamp.height, k) =>
                        /\ threads[t].ctx.color[k] = StampOverColor(Before(t)[k], StampPixel(cmd, c))
                        /\ StampPixel(cmd, c)[4] = 0 => threads[t].ctx.color[k] = Before(t)[k]

\* the sub-samples of pixel c that hit the rectangle: inside the outer quad
\* and, for a hollow rectangle, not inside the inner quad
Hits(cmd, c) ==
    LET outer == SubSamples(c[1], c[2], cmd.quad1)
        inner == SubSamples(c[1], c[2], cmd.quad2)
    IN  Cardinality({n \in 1..4 : outer[n] /\ (cmd.thickness = -1 \/ ~inner[n])})

\* C18: in the have_rotate_msaa specialization a rectangle with interpolation
\* blends, into an empty accumulator, each quad pixel with alpha c3 * hits / 4
\* when hits > 0 and leaves it empty when hits = 0.
C18_MsaaCoverage ==
    \A t \in DOMAIN threads :
        (/\ Kernel.msaa
         /\ Len(commands) >= 1 /\ commands[1].type = "Rectangle" /\ commands[1].interpolation
         /\ threads[t].i = 1
         /\ ~Culled(threads[t].ix, threads[t].iy, commands[1])) =>
            \A k \in 1..4 :
                LET c == <<QX(threads[t].ix, k), QY(threads[t].iy, k)>>
                IN  threads[t].ctx.color[k][4] = (commands[1].c3 * Hits(commands[1], c)) \div 4

\* the sum over the four quad pixels of f(foreground pixel)
QuadSum(color, f(_)) == f(color[1]) + f(color[2]) + f(color[3]) + f(color[4])

\* C19: on both NV12 formats a committed quad leaves in each of its four luma
\* samples (fg.r * fg.a + (255 - fg.a) * dst_y) >> 8 and in its chroma pair
\* (A * meanU + (255 - A) * dst_u) >> 8 and (A * meanV + (255 - A) * dst_v) >> 8,
\* with meanU, meanV the alpha-weighted means of the foreground G and B values
\* and A the sum of the four alphas >> 2; every value lies in 0..255.
C19_NV12Blit ==
    \A t \in DOMAIN threads :
        (IsNV12(format) /\ threads[t].pc = "done" /\ threads[t].access # {}) =>
            LET fg    == threads[t].ctx.color
                x     == threads[t].ix
                y     == threads[t].iy
                Alpha(c)  == c[4]
                UTimes(c) == c[2] * c[4]
                VTimes(c) == c[3] * c[4]
                sum   == QuadSum(fg, Alpha)
                meanU == QuadSum(fg, UTimes) \div sum
                meanV == QuadSum(fg, VTimes) \div sum
                A     == sum \div 4
                newU  == (A * meanU + (255 - A) * pre1[<<x, y \div 2>>]) \div 256
                newV  == (A * meanV + (255 - A) * pre1[<<x + 1, y \div 2>>]) \div 256
            IN  /\ sum > 0
                /\ \A k \in 1..4 :
                      LET c == <<QX(x, k), QY(y, k)>>
                          newY == (fg[k][1] * fg[k][4] + (255 - fg[k][4]) * pre0[c][1]) \div 256
                      IN  image0[c][1] = newY /\ newY \in 0..255
                /\ image1[<<x, y \div 2>>] = newU /\ newU \in 0..255
                /\ image1[<<x + 1, y \div 2>>] = newV /\ newV \in 0..255

C19_Witness ==
    \E t \in DOMAIN threads :
        /\ IsNV12(format) /\ threads[t].pc = "done" /\ threads[t].access # {}
        /\ \E k \in 1..4 : threads[t].ctx.color[k][4] \in 1..254
        /\ \E k \in 1..4 : threads[t].ctx.color[k][4] = 0
        /\ image1 # pre1

\* the pixels of the blur rectangle that lie inside the image
DestPixels(box) == {c \in DOMAIN image0 : InBox(box, c)}

\* the surface samples <<plane, x, y>> of the destination pixels: the pixel
\* itself and, on NV12, the chroma pair at its even column in chroma row y / 2
DestSamples(fmt, box) ==
    {<<0, c[1], c[2]>> : c \in DestPixels(box)}
    \cup (IF IsNV12(fmt)
          THEN {<<1, round_down2(c[1]) + d, c[2] \div 2>> : c \in DestPixels(box), d \in {0, 1}}
          ELSE {})

\* C20: phase 3 of a blur command stores every pixel of its rectangle that lies
\* inside the image exactly once, and writes no surface sample other than those
\* pixels and, on NV12, their chroma pairs.
C20_BlurWritesRectangle ==
    (block.pc = "done" /\ format \in ValidFormats) =>
        /\ \A c \in DestPixels(blur_commands[1]) :
              Cardinality({s \in BlurStores(blur_commands[1]) : s.fx = c[1] /\ s.fy = c[2]}) = 1
        /\ block.writes = DestSamples(format, blur_commands[1])

\* C21: in a blur block, under every interleaving of its threads, a thread about
\* to read the tile in phase 2 finds every cell of its window staged and not yet
\* replaced by a mean, a thread about to read the tile in phase 3 finds the mean
\* in every cell it reads, and a thread about to read the surface in phase 1
\* finds it not yet written by any thread of the block.
C21_BlockBarriers ==
    \A t \in DOMAIN sync.pc :
        /\ sync.pc[t] = "mean" =>
              \A c \in SyncWindow(t, blur_commands[1].kernel_size) : sync.cell[c] = "staged"
        /\ sync.pc[t] = "write" =>
              \A c \in SyncSource(t, blur_commands[1]) : sync.cell[c] = "mean"
        /\ sync.pc[t] = "stage" => ~sync.dirty

C21_Witness ==
    /\ sync.dirty
    /\ \E t, u \in DOMAIN sync.pc :
          /\ t # u /\ u \in SyncWindow(t, blur_commands[1].kernel_size)
          /\ sync.pc[t] = "done" /\ sync.pc[u] = "write"

\* C22: a filled circle (thickness -1) with integer centre, radius R and alpha
\* c3 leaves in the accumulator of a quad pixel at distance r from the centre
\* the circle's colour with alpha c3 when r < R, with the alpha (R + 1 - r) * c3
\* (truncated), which falls linearly from c3 to 0, when R <= r <= R + 1, and
\* leaves the pixel unblended when r > R + 1.
FilledCircle == Len(commands) = 1 /\ commands[1].type = "Circle" /\ commands[1].thickness = -1

Unblended == <<0, 0, 0, 0>>

\* r < R, R <= r <= R + 1 and r > R + 1 in terms of r * r
InDisc(d2, R) == d2 < R * R
BeyondRamp(d2, R) == d2 > (R + 1) * (R + 1)

\* k <= (R + 1 - r) * c3 < k + 1
OnRamp(d2, R, c3, k) ==
    /\ d2 * c3 * c3 <= ((R + 1) * c3 - k) * ((R + 1) * c3 - k)
    /\ d2 * c3 * c3 > ((R + 1) * c3 - k - 1) * ((R + 1) * c3 - k - 1)

C22_FilledCircle ==
    FilledCircle =>
        \A t \in DOMAIN threads : threads[t].i = 1 =>
            \A k \in 1..4 :
                LET p  == commands[1]
                    d2 == SquaredDistance(threads[t].ix, threads[t].iy, p, k)
                    px == threads[t].ctx.color[k]
                IN  /\ InDisc(d2, p.radius) => px = <<p.c0, p.c1, p.c2, p.c3>>
                    /\ BeyondRamp(d2, p.radius) => px = Unblended
                    /\ ~InDisc(d2, p.radius) /\ ~BeyondRamp(d2, p.radius) =>
                          /\ OnRamp(d2, p.radius, p.c3, px[4])
                          /\ px[4] <= p.c3
                          /\ px[4] > 0 => px = <<p.c0, p.c1, p.c2, px[4]>>
                          /\ px[4] = 0 => px = Unblended

C22_Witness ==
    /\ FilledCircle /\ AllDone
    /\ \E t, u \in DOMAIN threads : \E k, m, n \in 1..4 :
          LET p == commands[1]
          IN  /\ threads[t].i = 1 /\ threads[u].i = 1
              /\ InDisc(SquaredDistance(threads[t].ix, threads[t].iy, p, k), p.radius)
              /\ threads[t].ctx.color[m][4] > 0 /\ threads[t].ctx.color[m][4] < p.c3
              /\ BeyondRamp(SquaredDistance(threads[u].ix, threads[u].iy, p, n), p.radius)

\* C23: every destination pixel (x, y) that BlendingPixel reads or writes lies
\* in the image, 0 <= x < image_width and 0 <= y < image_height (and every
\* chroma sample in the chroma plane), for every format and every global
\* bounding box, because a thread enters the command loop only with
\* 0 <= ix <= image_width - 2 and 0 <= iy <= image_height - 2.
InSurface(cell) ==
    /\ cell[2] >= 0 /\ cell[2] < width
    /\ cell[3] >= 0 /\ cell[3] < (IF cell[1] = 0 THEN height ELSE (height + 1) \div 2)

\* global bounding boxes of every kind: inside, on and across each image edge
ProbeBoxes ==
    {<<l, t, r, b>> : l \in {-2, 0, 1, width - 1, width + 2}, t \in {-2, 0, height - 1, height + 2},
                      r \in {-2, 0, 1, width - 1, width + 2}, b \in {-2, 0, height - 1, height + 2}}

\* the threads that a launch with the box lets into the command loop
Entering(box) == cuosd_launch_kernel_impl(format, have_rotate_msaa, 0, box).threads

C23_CommitInImage ==
    /\ \A t \in DOMAIN threads :
          /\ threads[t].ix >= 0 /\ threads[t].ix <= width - 2
          /\ threads[t].iy >= 0 /\ threads[t].iy <= height - 2
          /\ \A cell \in threads[t].access : InSurface(cell)
    /\ (host = "call" /\ commands = <<>> /\ num_blur_commands = 0 /\ dst = BlackSeed
            /\ undef = -1 /\ format \in ValidFormats) =>
          \A box \in ProbeBoxes : \A t \in DOMAIN Entering(box) :
              \A cell \in BlendingCells(format, Entering(box)[t].ix, Entering(box)[t].iy) :
                  InSurface(cell)

C23_Witness ==
    \E t \in DOMAIN threads :
        /\ threads[t].pc = "done"
        /\ threads[t].ix = width - 2 /\ threads[t].iy = height - 2
        /\ <<1, width - 1, (height - 2) \div 2>> \in threads[t].access
        /\ Kernel.grid[1] * BlockDim[1] * 2 > width

\* C24: for every blur command and every thread of its block, the coordinate
\* (sx, sy) that phase 1 passes to load_pixel lies in the image:
\* 0 <= sx <= image_width - 1 and 0 <= sy <= image_height - 1.
C24_StagingInImage ==
    (block.pc \in {"mean", "write", "done"} /\ format \in ValidFormats) =>
        \A c \in Tile :
            /\ StageX(c[1], blur_commands[1]) >= 0
            /\ StageX(c[1], blur_commands[1]) <= width - 1
            /\ StageY(c[2], blur_commands[1]) >= 0
            /\ StageY(c[2], blur_commands[1]) <= height - 1

\* C25: the NV12 blenders never divide by zero, because BlendingPixel is called
\* only for a quad with at least one non-zero accumulator alpha, so the sum of
\* the four alphas, the divisor of meanu and meanv, is at least 1; and the
\* divisor n of the blur mean is at least 1 for every thread and every
\* kernel_size >= 0.
AlphaSum(color) == color[1][4] + color[2][4] + color[3][4] + color[4][4]

\* the thread is about to call BlendingPixel (Commits), has called it (Committed)
Commits(t) ==
    threads[t].pc = "loop" /\ threads[t].i >= Len(commands) /\ ~SkipsCommit(threads[t].ctx.color)

Committed(t) == threads[t].access # {}

C25_NoDivisionByZero ==
    /\ IsNV12(format) =>
          \A t \in DOMAIN threads :
              /\ (Commits(t) \/ Committed(t)) => AlphaSum(threads[t].ctx.color) >= 1
              /\ Commits(t) => ~BlendingPixel(format, image0, image1, threads[t].ix,
                                              threads[t].iy, threads[t].ctx.color).dz
    /\ (block.pc = "write" /\ blur_commands[1].kernel_size >= 0) =>
          \A c \in Tile : MeanCount(c, blur_commands[1].kernel_size) >= 1
    /\ block.pc = "mean" =>
          \A kernel_size \in 0 .. MaxKernel : \A c \in Tile : MeanCount(c, kernel_size) >= 1

C25_Witness ==
    /\ IsNV12(format) /\ block.pc = "done" /\ blur_commands[1].kernel_size = 3
    /\ \E t \in DOMAIN threads :
          /\ threads[t].access # {}
          /\ threads[t].ctx.color[1][4] = 0
          /\ AlphaSum(threads[t].ctx.color) >= 1

\* C26: every image pixel that an opaque filled rectangle covers belongs to the
\* quad of a launched thread that does not bail out, and so is painted: on an
\* RGB or RGBA surface it shows the colour of the rectangle drawn last when
\* the kernel has finished; the last column of an odd-width image and the last
\* row of an odd-height image included.
C26_EdgeCoverage ==
    (host = "returned" /\ format \in ValidFormats) =>
        \A i \in 1..Len(commands) : OpaqueFill(commands[i]) =>
            \A c \in DOMAIN image0 : Covers(commands[i], c) =>
                /\ \E t \in DOMAIN threads : c \in QuadCells(threads[t].ix, threads[t].iy)
                /\ (AllDone /\ i = Len(commands) /\ format \in {ImageFormat.RGB, ImageFormat.RGBA})
                      => SubSeq(image0[c], 1, 3) = ColourOf(commands[i])

====
